---- MODULE Spec2Model ----
(***************************************************************************)
(* Community Real Estate Hunter: the cache manager                         *)
(* (src/utils/cache_manager.py).                                           *)
(*                                                                         *)
(* The model follows the live classes of the file (lines 127-628): the     *)
(* health-tracked entry (CachedEntry), the persistent store (BaseCache),   *)
(* the scraper cache (ScraperCache) and the session cache (SessionCache).  *)
(* Lines 1-124 of the file are a commented-out earlier variant and are not *)
(* executed.                                                               *)
(* The callers of the cache are the scrapers of src/scraper/data/base.py:   *)
(* each BaseScraper constructs its own ScraperCache, and its scrape         *)
(* coroutines call the synchronous log_success / log_failure.              *)
(* The site scraper is HousingScraper of src/scraper/housing.py, which     *)
(* extends the BaseScraper that its `from base import` finds.              *)
(*                                                                         *)
(* Conventions                                                             *)
(*  - a Python str that the code inspects character by character (the      *)
(*    location) is a sequence of one-character strings; other strings are  *)
(*    TLA+ strings;                                                        *)
(*  - a dict is a function whose DOMAIN is the set of its keys;            *)
(*  - an Optional value is a sequence of length 0 (None) or 1;             *)
(*  - datetime.now() is the integer clock now, advanced by Tick;           *)
(*  - the failure rate f/(s+f) is kept as the exact fraction <<f, s+f>>;   *)
(*    the float comparisons rate < 0.1 and rate < 0.3 are the integer      *)
(*    comparisons 10*f < s+f and 10*f < 3*(s+f), which agree with IEEE     *)
(*    doubles for every count far below 2^50.                              *)
(***************************************************************************)
EXTENDS Integers, Sequences, FiniteSets, TLC

VARIABLES
    cls,     \* the concrete class of the cache instance
    data,    \* self.data: the in-memory document of the instance
    disk,    \* self.cache_file: the JSON file of the instance
    now,     \* the wall clock read by datetime.now(), in hours
    call,    \* the last public call on the instance and what it returned
    tally,   \* per key, the mark calls made since the key was last set
    probe,   \* a free-standing CachedEntry (counters and status only)
    peer,    \* self.data of a second instance on the same file, <<>> if none
    tasks,   \* per worker, the position of its scrape coroutine
    run      \* one HousingScraper.scrape invocation: its position, what it
             \* found, the hooks it called and what it returned

vars == <<cls, data, disk, now, call, tally, probe, peer, tasks, run>>

----------------------------------------------------------------------------
(* Bounds of the model *)

\* the clock stops advancing at MaxTime
MaxTime == 1
\* per-entry cap on either counter in the many-key specification
MaxCount == 1
\* per-entry caps on the counters in the one-key specification
MaxSuccess == 10
MaxFailure == 5
\* largest counter value of a free-standing entry
MaxProbe == 12
\* cap on a session's usage_count
MaxUsage == 1
\* longest location string normalized on its own
MaxLen == 3
\* number of scrape coroutines sharing one cache instance
MaxWorkers == 2
\* failures an entry collects before it is left to recover
MaxRecoverFailures == 1
\* largest absolute value of a budget passed to scrape
MaxBudget == 2
\* most listing cards a results page shows
MaxCards == 2

----------------------------------------------------------------------------
(* Input universes *)

\* locations, abbreviated: "Sec 56", "sec-56", "Ggm"
Sector_56 == <<"S", "e", "c", " ", "5", "6">>
sector_56 == <<"s", "e", "c", "-", "5", "6">>
Gurugram == <<"G", "g", "m">>

\* the (site, location, bhk) arguments of the many-key specification
Keys ==
    { <<"housing", Sector_56, "1bhk">>,
      <<"housing", sector_56, "1bhk">>,
      <<"housing", sector_56, "2bhk">> }

\* the (site, location, bhk) arguments of the one-key specifications
OneKey == { <<"housing", Gurugram, "1bhk">> }

\* Python None in a string-valued field, and its JSON spelling
None == "None"
Null == "null"

\* the arguments (hash, full_url, bhk_code, location_hash) of set
PayloadA ==
    [hash |-> "C2P1", full_url |-> "https://x/C2P1",
     bhk_code |-> "C2", location_hash |-> "P1"]
PayloadB ==
    [hash |-> "C3P7", full_url |-> "https://x/C3P7",
     bhk_code |-> None, location_hash |-> None]
Payloads == {PayloadA, PayloadB}

\* the arguments (cookies, user_agent, viewport) of SessionCache.set; a
\* viewport of None stands for the omitted argument
DefaultViewport == "1920x1080"
SessionA == [cookies |-> "sid=1", user_agent |-> "UA-1", viewport |-> None]
SessionB == [cookies |-> "sid=2", user_agent |-> "UA-2", viewport |-> "800x600"]
SessionPayloads == {SessionA, SessionB}
SessionSites == {"housing"}

\* how one open()/json.dump() of _save can end
WriteOk == {"ok"}
WriteAny == {"ok", "open_failed", "truncated"}

----------------------------------------------------------------------------
(* CacheStatus and CachedEntry *)

HEALTHY == "healthy"
DEGRADED == "degraded"
BROKEN == "broken"
CacheStatus == {HEALTHY, DEGRADED, BROKEN}

\* CachedEntry.failure_rate: the fraction <<numerator, denominator>>
failure_rate(success_count, failure_count) ==
    LET total == success_count + failure_count
    IN  IF total = 0 THEN <<0, 1>> ELSE <<failure_count, total>>

\* rate < p/q for a fraction rate and a decimal literal p/q
RateLess(rate, p, q) == rate[1] * q < p * rate[2]

\* update_status with the HEALTHY test written rate <= 0.1
update_status_inclusive(success_count, failure_count) ==
    LET rate == failure_rate(success_count, failure_count)
    IN  IF rate[1] = 0 \/ (success_count > 5 /\ ~RateLess(<<1, 10>>, rate[1], rate[2]))
        THEN HEALTHY
        ELSE IF RateLess(rate, 3, 10)
             THEN DEGRADED
             ELSE BROKEN

\* a rule that calls an entry healthy only while it has never failed
update_status_no_recovery(success_count, failure_count) ==
    LET rate == failure_rate(success_count, failure_count)
    IN  IF rate[1] = 0 THEN HEALTHY
        ELSE IF RateLess(rate, 3, 10) THEN DEGRADED
        ELSE BROKEN

\* CachedEntry.update_status: the status written by the if / elif / else
update_status(success_count, failure_count) ==
    LET rate == failure_rate(success_count, failure_count)
    IN  IF rate[1] = 0 \/ (success_count > 5 /\ RateLess(rate, 1, 10))
        THEN HEALTHY
        ELSE IF RateLess(rate, 3, 10)
             THEN DEGRADED
             ELSE BROKEN

----------------------------------------------------------------------------
(* dict helpers *)

EmptyDict == [k \in {} |-> 0]

Put(d, k, v) == [x \in (DOMAIN d) \cup {k} |-> IF x = k THEN v ELSE d[x]]

----------------------------------------------------------------------------
(* BaseCache: the persistent store *)

\* ScraperCache._get_empty_structure / SessionCache._get_empty_structure
_get_empty_structure(c, t) ==
    IF c = "ScraperCache"
    THEN [metadata |-> [version |-> "1.0", created_at |-> t, last_updated |-> t],
          sites |-> EmptyDict]
    ELSE [metadata |-> [version |-> "1.0", created_at |-> t, last_updated |-> t],
          sessions |-> EmptyDict]

\* json.dump / json.load of one optional string field
ToJson(v) == IF v = None THEN Null ELSE v
FromJson(v) == IF v = Null THEN None ELSE v

EntryToJson(e) ==
    [e EXCEPT !.bhk_code = ToJson(@), !.location_hash = ToJson(@)]
EntryFromJson(e) ==
    [e EXCEPT !.bhk_code = FromJson(@), !.location_hash = FromJson(@)]

\* the nested sites dict with every entry written out (dump) or read back
MapEntries(sites, dump) ==
    [s \in DOMAIN sites |->
        [l \in DOMAIN sites[s] |->
            [b \in DOMAIN sites[s][l] |->
                IF dump THEN EntryToJson(sites[s][l][b])
                ELSE EntryFromJson(sites[s][l][b])]]]

\* json.dump(self.data, f, indent=2): the text written for a document; a
\* session document holds no None
JsonDump(d) ==
    IF "sites" \in DOMAIN d
    THEN [d EXCEPT !.sites = MapEntries(@, TRUE)]
    ELSE d

\* json.load(f): the document read back from that text
JsonLoad(text) ==
    IF "sites" \in DOMAIN text
    THEN [text EXCEPT !.sites = MapEntries(@, FALSE)]
    ELSE text

NoFile == [state |-> "absent", text |-> EmptyDict]
CorruptFile == [state |-> "corrupt", text |-> EmptyDict]
JsonFile(d) == [state |-> "json", text |-> JsonDump(d)]

\* _load that never reads the file
_load_fresh(c, dsk, t) == _get_empty_structure(c, t)

\* _load that answers a file it cannot parse with an empty dict
_load_no_recover(c, dsk, t) ==
    CASE dsk.state = "json" -> JsonLoad(dsk.text)
      [] dsk.state = "corrupt" -> EmptyDict
      [] OTHER -> _get_empty_structure(c, t)

\* BaseCache._load: the document a new instance of class c starts with
_load(c, dsk, t) ==
    IF dsk.state = "json"
    THEN JsonLoad(dsk.text)
    ELSE _get_empty_structure(c, t)

\* _save that leaves the write for later
_save_deferred(d, dsk, w) == dsk

\* BaseCache._save: the file after one save of document d that ends as w;
\* open(.., 'w') truncates the file before json.dump writes it, and every
\* exception is swallowed
_save(d, dsk, w) ==
    CASE w = "ok" -> JsonFile(d)
      [] w = "open_failed" -> dsk
      [] w = "truncated" -> CorruptFile

\* the record of a public call: its name and arguments (args: the payload of
\* a set), the entry stored under its key when it was made (before), the
\* entry or session it returned (<<>> for None), whether it found its key,
\* the exception it raised, whether it printed the BROKEN warning, how its
\* saves ended, and the instance it was made on (handle: 1 for self.data of
\* the first instance, 2 for the second)
NoCall ==
    [op |-> "init", handle |-> 1, site |-> "", location |-> <<>>, bhk |-> "",
     args |-> <<>>, before |-> <<>>, entry |-> <<>>, flag |-> FALSE,
     raised |-> "", signal |-> FALSE, wrote |-> <<>>]

\* clear that empties the document in memory and leaves the file alone
clear_memory_only(w) ==
    LET d1 == _get_empty_structure(cls, now)
    IN  /\ data' = d1
        /\ disk' = disk
        /\ call' = [NoCall EXCEPT !.op = "clear", !.wrote = <<w>>,
                       !.flag = (\E k \in DOMAIN data \ {"metadata"} :
                                     data[k] # EmptyDict)]
        /\ tally' = EmptyDict
        /\ UNCHANGED <<cls, now, probe, peer, tasks, run>>

\* BaseCache.clear(); the call record notes whether the document held
\* anything besides its metadata
clear(w) ==
    LET d1 == _get_empty_structure(cls, now)
    IN  /\ data' = d1
        /\ disk' = _save(d1, disk, w)
        /\ call' = [NoCall EXCEPT !.op = "clear", !.wrote = <<w>>,
                       !.flag = (\E k \in DOMAIN data \ {"metadata"} :
                                     data[k] # EmptyDict)]
        /\ tally' = EmptyDict
        /\ UNCHANGED <<cls, now, probe, peer, tasks, run>>

\* BaseCache.__init__ of a new process on the same file
Restart ==
    /\ data' = _load(cls, disk, now)
    /\ call' = NoCall
    /\ tally' = EmptyDict
    /\ UNCHANGED <<cls, disk, now, probe, peer, tasks, run>>

----------------------------------------------------------------------------
(* ScraperCache *)

\* str.lower() on the characters the model uses
Lower(c) ==
    CASE c = "S" -> "s"
      [] c = "G" -> "g"
      [] OTHER -> c

\* ScraperCache._normalize_location: location.lower().replace(" ", "-")
_normalize_location(location) ==
    [i \in 1..Len(location) |->
        IF Lower(location[i]) = " " THEN "-" ELSE Lower(location[i])]

\* self.data["sites"][site][location_key][bhk] does not raise KeyError
HasEntry(d, site, location_key, bhk) ==
    /\ "sites" \in DOMAIN d
    /\ site \in DOMAIN d.sites
    /\ location_key \in DOMAIN d.sites[site]
    /\ bhk \in DOMAIN d.sites[site][location_key]

\* an assignment that starts the location's dict afresh each time
PutEntryFreshLocation(d, site, location_key, bhk, e) ==
    LET s0 == IF site \in DOMAIN d.sites THEN d.sites[site] ELSE EmptyDict
    IN  [d EXCEPT !.sites = Put(@, site, Put(s0, location_key, Put(EmptyDict, bhk, e)))]

\* self.data["sites"][site][location_key][bhk] = e, the nested dicts created
\* if needed
PutEntry(d, site, location_key, bhk, e) ==
    LET s0 == IF site \in DOMAIN d.sites THEN d.sites[site] ELSE EmptyDict
        l0 == IF location_key \in DOMAIN s0 THEN s0[location_key] ELSE EmptyDict
    IN  [d EXCEPT !.sites = Put(@, site, Put(s0, location_key, Put(l0, bhk, e)))]

\* the entry stored for the arguments of a call, <<>> if there is none
Stored(d, site, location, bhk) ==
    IF HasEntry(d, site, _normalize_location(location), bhk)
    THEN <<d.sites[site][_normalize_location(location)][bhk]>>
    ELSE <<>>

\* the key a call with these arguments is counted under
TallyKey(site, location, bhk) == <<site, _normalize_location(location), bhk>>

NoMarks == [success |-> 0, failure |-> 0]

\* one more mark call of the given kind on a key that has been set
Counted(tl, key, kind) ==
    IF key \in DOMAIN tl THEN [tl EXCEPT ![key][kind] = @ + 1] ELSE tl

\* get that looks the location up as given, without normalizing it
GetResultRawKey(d, dsk, site, location, bhk, t, w) ==
    IF HasEntry(d, site, location, bhk)
    THEN LET entry == [d.sites[site][location][bhk] EXCEPT !.last_used = t]
             d1 == PutEntry(d, site, location, bhk, entry)
         IN  [data |-> d1, disk |-> _save(d1, dsk, w), entry |-> <<entry>>,
              wrote |-> <<w>>]
    ELSE [data |-> d, disk |-> dsk, entry |-> <<>>, wrote |-> <<>>]

\* get that also stamps the metadata of the document
GetResultTouchesMetadata(d, dsk, site, location, bhk, t, w) ==
    LET location_key == _normalize_location(location)
    IN  IF HasEntry(d, site, location_key, bhk)
        THEN LET entry == [d.sites[site][location_key][bhk] EXCEPT !.last_used = t]
                 d1 == PutEntry(d, site, location_key, bhk, entry)
                 d2 == [d1 EXCEPT !.metadata.last_updated = t]
             IN  [data |-> d2, disk |-> _save(d2, dsk, w), entry |-> <<entry>>,
                  wrote |-> <<w>>]
        ELSE [data |-> d, disk |-> dsk, entry |-> <<>>, wrote |-> <<>>]

\* get that drops an entry once it is a day old
GetResultExpiring(d, dsk, site, location, bhk, t, w) ==
    LET location_key == _normalize_location(location)
    IN  IF /\ HasEntry(d, site, location_key, bhk)
           /\ t - d.sites[site][location_key][bhk].discovered_at < 24
        THEN LET entry == [d.sites[site][location_key][bhk] EXCEPT !.last_used = t]
                 d1 == PutEntry(d, site, location_key, bhk, entry)
             IN  [data |-> d1, disk |-> _save(d1, dsk, w), entry |-> <<entry>>,
                  wrote |-> <<w>>]
        ELSE [data |-> d, disk |-> dsk, entry |-> <<>>, wrote |-> <<>>]

\* ScraperCache.get as a function of the state: the document and file it
\* leaves, the entry it returns and the saves it made
GetResult(d, dsk, site, location, bhk, t, w) ==
    LET location_key == _normalize_location(location)
    IN  IF HasEntry(d, site, location_key, bhk)
        THEN LET entry == [d.sites[site][location_key][bhk] EXCEPT !.last_used = t]
                 d1 == PutEntry(d, site, location_key, bhk, entry)
             IN  [data |-> d1, disk |-> _save(d1, dsk, w), entry |-> <<entry>>,
                  wrote |-> <<w>>]
        ELSE [data |-> d, disk |-> dsk, entry |-> <<>>, wrote |-> <<>>]

\* ScraperCache.get(site, location, bhk)
get(site, location, bhk, w) ==
    LET r == GetResult(data, disk, site, location, bhk, now, w)
    IN  /\ cls = "ScraperCache"
        /\ data' = r.data
        /\ disk' = r.disk
        /\ call' = [NoCall EXCEPT !.op = "get", !.site = site,
                       !.location = location, !.bhk = bhk,
                       !.before = Stored(data, site, location, bhk),
                       !.entry = r.entry, !.flag = (r.entry # <<>>),
                       !.wrote = r.wrote]
        /\ UNCHANGED <<cls, now, tally, probe, peer, tasks, run>>

\* set that updates the hash fields of an existing entry in place and keeps
\* its counters and status
SetResultKeepCounters(d, dsk, site, location, bhk, p, t, w) ==
    LET location_key == _normalize_location(location)
        fresh == [hash |-> p.hash, full_url |-> p.full_url,
                  bhk_code |-> p.bhk_code, location_hash |-> p.location_hash,
                  discovered_at |-> t, last_used |-> t,
                  success_count |-> 0, failure_count |-> 0,
                  status |-> HEALTHY]
        entry == IF HasEntry(d, site, location_key, bhk)
                 THEN [d.sites[site][location_key][bhk] EXCEPT
                          !.hash = p.hash, !.full_url = p.full_url,
                          !.bhk_code = p.bhk_code,
                          !.location_hash = p.location_hash, !.last_used = t]
                 ELSE fresh
        d1 == PutEntry(d, site, location_key, bhk, entry)
        d2 == [d1 EXCEPT !.metadata.last_updated = t]
    IN  [data |-> d2, disk |-> _save(d2, dsk, w), wrote |-> <<w>>]

\* set that undoes its change of the document when the save fails
SetResultRollback(d, dsk, site, location, bhk, p, t, w) ==
    LET location_key == _normalize_location(location)
        entry == [hash |-> p.hash, full_url |-> p.full_url,
                  bhk_code |-> p.bhk_code, location_hash |-> p.location_hash,
                  discovered_at |-> t, last_used |-> t,
                  success_count |-> 0, failure_count |-> 0,
                  status |-> HEALTHY]
        d1 == PutEntry(d, site, location_key, bhk, entry)
        d2 == [d1 EXCEPT !.metadata.last_updated = t]
    IN  [data |-> IF w = "ok" THEN d2 ELSE d, disk |-> _save(d2, dsk, w),
         wrote |-> <<w>>]

\* ScraperCache.set as a function of the state
SetResult(d, dsk, site, location, bhk, p, t, w) ==
    LET location_key == _normalize_location(location)
        entry == [hash |-> p.hash, full_url |-> p.full_url,
                  bhk_code |-> p.bhk_code, location_hash |-> p.location_hash,
                  discovered_at |-> t, last_used |-> t,
                  success_count |-> 0, failure_count |-> 0,
                  status |-> HEALTHY]
        d1 == PutEntry(d, site, location_key, bhk, entry)
        d2 == [d1 EXCEPT !.metadata.last_updated = t]
    IN  [data |-> d2, disk |-> _save(d2, dsk, w), wrote |-> <<w>>]

\* ScraperCache.set(site, location, bhk, hash, full_url, bhk_code, location_hash)
\* on a document without "sites" the first subscript, self.data["sites"],
\* raises KeyError before anything is written
set(site, location, bhk, p, w) ==
    LET r == SetResult(data, disk, site, location, bhk, p, now, w)
    IN  /\ cls = "ScraperCache"
        /\ IF "sites" \in DOMAIN data
           THEN /\ data' = r.data
                /\ disk' = r.disk
                /\ call' = [NoCall EXCEPT !.op = "set", !.site = site,
                               !.location = location, !.bhk = bhk, !.args = <<p>>,
                               !.before = Stored(data, site, location, bhk),
                               !.flag = TRUE, !.wrote = r.wrote]
                /\ tally' = Put(tally, TallyKey(site, location, bhk), NoMarks)
           ELSE /\ call' = [NoCall EXCEPT !.op = "set", !.site = site,
                               !.location = location, !.bhk = bhk, !.args = <<p>>,
                               !.raised = "KeyError"]
                /\ UNCHANGED <<data, disk, tally>>
        /\ UNCHANGED <<cls, now, probe, peer, tasks, run>>

\* mark_success that recomputes the status but does not store the counter
MarkSuccessResultLost(d, dsk, site, location, bhk, t, w1, w2) ==
    LET r == GetResult(d, dsk, site, location, bhk, t, w1)
    IN  IF r.entry # <<>>
        THEN LET location_key == _normalize_location(location)
                 success_count == r.entry[1].success_count + 1
                 status == update_status(success_count, r.entry[1].failure_count)
                 stored == r.data.sites[site][location_key][bhk]
                 d1 == PutEntry(r.data, site, location_key, bhk,
                           [stored EXCEPT !.status = status])
             IN  [data |-> d1, disk |-> _save(d1, r.disk, w2), hit |-> TRUE,
                  wrote |-> r.wrote \o <<w2>>]
        ELSE [data |-> r.data, disk |-> r.disk, hit |-> FALSE, wrote |-> r.wrote]

\* mark_success that also restamps the discovery time of the entry
MarkSuccessResultRediscovers(d, dsk, site, location, bhk, t, w1, w2) ==
    LET r == GetResult(d, dsk, site, location, bhk, t, w1)
    IN  IF r.entry # <<>>
        THEN LET location_key == _normalize_location(location)
                 success_count == r.entry[1].success_count + 1
                 status == update_status(success_count, r.entry[1].failure_count)
                 stored == r.data.sites[site][location_key][bhk]
                 d1 == PutEntry(r.data, site, location_key, bhk,
                           [stored EXCEPT !.success_count = success_count,
                                          !.status = status,
                                          !.discovered_at = t])
             IN  [data |-> d1, disk |-> _save(d1, r.disk, w2), hit |-> TRUE,
                  wrote |-> r.wrote \o <<w2>>]
        ELSE [data |-> r.data, disk |-> r.disk, hit |-> FALSE, wrote |-> r.wrote]

\* ScraperCache.mark_success as a function of the state
MarkSuccessResult(d, dsk, site, location, bhk, t, w1, w2) ==
    LET r == GetResult(d, dsk, site, location, bhk, t, w1)
    IN  IF r.entry # <<>>
        THEN LET location_key == _normalize_location(location)
                 success_count == r.entry[1].success_count + 1
                 status == update_status(success_count, r.entry[1].failure_count)
                 stored == r.data.sites[site][location_key][bhk]
                 d1 == PutEntry(r.data, site, location_key, bhk,
                           [stored EXCEPT !.success_count = success_count,
                                          !.status = status])
             IN  [data |-> d1, disk |-> _save(d1, r.disk, w2), hit |-> TRUE,
                  wrote |-> r.wrote \o <<w2>>]
        ELSE [data |-> r.data, disk |-> r.disk, hit |-> FALSE, wrote |-> r.wrote]

\* ScraperCache.mark_success(site, location, bhk)
mark_success(site, location, bhk, w1, w2) ==
    LET r == MarkSuccessResult(data, disk, site, location, bhk, now, w1, w2)
    IN  /\ cls = "ScraperCache"
        /\ data' = r.data
        /\ disk' = r.disk
        /\ call' = [NoCall EXCEPT !.op = "mark_success", !.site = site,
                       !.location = location, !.bhk = bhk,
                       !.before = Stored(data, site, location, bhk),
                       !.flag = r.hit, !.wrote = r.wrote]
        /\ tally' = Counted(tally, TallyKey(site, location, bhk), "success")
        /\ UNCHANGED <<cls, now, probe, peer, tasks, run>>

\* mark_failure that stores the counter but not the recomputed status
MarkFailureResultStale(d, dsk, site, location, bhk, t, w1, w2) ==
    LET r == GetResult(d, dsk, site, location, bhk, t, w1)
    IN  IF r.entry # <<>>
        THEN LET location_key == _normalize_location(location)
                 failure_count == r.entry[1].failure_count + 1
                 status == update_status(r.entry[1].success_count, failure_count)
                 stored == r.data.sites[site][location_key][bhk]
                 d1 == PutEntry(r.data, site, location_key, bhk,
                           [stored EXCEPT !.failure_count = failure_count])
             IN  [data |-> d1, disk |-> _save(d1, r.disk, w2), hit |-> TRUE,
                  signal |-> (status = BROKEN), wrote |-> r.wrote \o <<w2>>]
        ELSE [data |-> r.data, disk |-> r.disk, hit |-> FALSE,
              signal |-> FALSE, wrote |-> r.wrote]

\* mark_failure that creates the site and location dicts of a missing key
MarkFailureResultCreates(d, dsk, site, location, bhk, t, w1, w2) ==
    LET r == GetResult(d, dsk, site, location, bhk, t, w1)
    IN  IF r.entry # <<>>
        THEN LET location_key == _normalize_location(location)
                 failure_count == r.entry[1].failure_count + 1
                 status == update_status(r.entry[1].success_count, failure_count)
                 stored == r.data.sites[site][location_key][bhk]
                 d1 == PutEntry(r.data, site, location_key, bhk,
                           [stored EXCEPT !.failure_count = failure_count,
                                          !.status = status])
             IN  [data |-> d1, disk |-> _save(d1, r.disk, w2), hit |-> TRUE,
                  signal |-> (status = BROKEN), wrote |-> r.wrote \o <<w2>>]
        ELSE LET location_key == _normalize_location(location)
                 s0 == IF site \in DOMAIN d.sites THEN d.sites[site] ELSE EmptyDict
                 l0 == IF location_key \in DOMAIN s0 THEN s0[location_key]
                       ELSE EmptyDict
                 d1 == [d EXCEPT !.sites = Put(@, site, Put(s0, location_key, l0))]
             IN  [data |-> d1, disk |-> r.disk, hit |-> FALSE,
                  signal |-> FALSE, wrote |-> r.wrote]

\* mark_failure that prints its warning for every entry that is not healthy
MarkFailureResultWarnsUnhealthy(d, dsk, site, location, bhk, t, w1, w2) ==
    LET r == GetResult(d, dsk, site, location, bhk, t, w1)
    IN  IF r.entry # <<>>
        THEN LET location_key == _normalize_location(location)
                 failure_count == r.entry[1].failure_count + 1
                 status == update_status(r.entry[1].success_count, failure_count)
                 stored == r.data.sites[site][location_key][bhk]
                 d1 == PutEntry(r.data, site, location_key, bhk,
                           [stored EXCEPT !.failure_count = failure_count,
                                          !.status = status])
             IN  [data |-> d1, disk |-> _save(d1, r.disk, w2), hit |-> TRUE,
                  signal |-> (status # HEALTHY), wrote |-> r.wrote \o <<w2>>]
        ELSE [data |-> r.data, disk |-> r.disk, hit |-> FALSE,
              signal |-> FALSE, wrote |-> r.wrote]

\* ScraperCache.mark_failure as a function of the state; signal is the
\* BROKEN warning printed when entry.is_broken()
MarkFailureResult(d, dsk, site, location, bhk, t, w1, w2) ==
    LET r == GetResult(d, dsk, site, location, bhk, t, w1)
    IN  IF r.entry # <<>>
        THEN LET location_key == _normalize_location(location)
                 failure_count == r.entry[1].failure_count + 1
                 status == update_status(r.entry[1].success_count, failure_count)
                 stored == r.data.sites[site][location_key][bhk]
                 d1 == PutEntry(r.data, site, location_key, bhk,
                           [stored EXCEPT !.failure_count = failure_count,
                                          !.status = status])
             IN  [data |-> d1, disk |-> _save(d1, r.disk, w2), hit |-> TRUE,
                  signal |-> (status = BROKEN), wrote |-> r.wrote \o <<w2>>]
        ELSE [data |-> r.data, disk |-> r.disk, hit |-> FALSE,
              signal |-> FALSE, wrote |-> r.wrote]

\* ScraperCache.mark_failure(site, location, bhk)
mark_failure(site, location, bhk, w1, w2) ==
    LET r == MarkFailureResult(data, disk, site, location, bhk, now, w1, w2)
    IN  /\ cls = "ScraperCache"
        /\ data' = r.data
        /\ disk' = r.disk
        /\ call' = [NoCall EXCEPT !.op = "mark_failure", !.site = site,
                       !.location = location, !.bhk = bhk,
                       !.before = Stored(data, site, location, bhk),
                       !.flag = r.hit, !.signal = r.signal, !.wrote = r.wrote]
        /\ tally' = Counted(tally, TallyKey(site, location, bhk), "failure")
        /\ UNCHANGED <<cls, now, probe, peer, tasks, run>>

\* has_location that looks at the site only
has_location_site_only(d, site, location) == site \in DOMAIN d.sites

\* ScraperCache.has_location(site, location): a query, no effect
has_location(d, site, location) ==
    LET location_key == _normalize_location(location)
    IN  /\ site \in DOMAIN d.sites
        /\ location_key \in DOMAIN d.sites[site]

\* get_all_bhk_types that looks the location up as given
get_all_bhk_types_raw_key(d, site, location) ==
    IF /\ site \in DOMAIN d.sites
       /\ location \in DOMAIN d.sites[site]
    THEN DOMAIN d.sites[site][location]
    ELSE {}

\* ScraperCache.get_all_bhk_types(site, location): a query, no effect; the
\* list of keys as a set, the empty list on KeyError
get_all_bhk_types(d, site, location) ==
    LET location_key == _normalize_location(location)
    IN  IF /\ site \in DOMAIN d.sites
           /\ location_key \in DOMAIN d.sites[site]
        THEN DOMAIN d.sites[site][location_key]
        ELSE {}

\* the exception raised by looking up attribute name on a ScraperCache: the
\* class (lines 271-504) and its base (lines 203-268) define no invalidate
ScraperCacheMethods ==
    {"get", "set", "mark_success", "mark_failure", "has_location",
     "get_all_bhk_types", "print_summary", "clear", "get_stats"}
AttributeLookup(name) ==
    IF name \in ScraperCacheMethods THEN "" ELSE "AttributeError"

\* cache.invalidate(site, location, bhk): the attribute lookup raises before
\* anything is touched
invalidate(site, location, bhk) ==
    /\ cls = "ScraperCache"
    /\ AttributeLookup("invalidate") # ""
    /\ call' = [NoCall EXCEPT !.op = "invalidate", !.site = site,
                   !.location = location, !.bhk = bhk,
                   !.before = Stored(data, site, location, bhk),
                   !.flag = HasEntry(data, site, _normalize_location(location), bhk),
                   !.raised = AttributeLookup("invalidate")]
    /\ UNCHANGED <<cls, data, disk, now, tally, probe, peer, tasks, run>>

----------------------------------------------------------------------------
(* SessionCache *)

\* timedelta(hours=24)
SessionTTL == 24

\* a validity check that still accepts a session aged exactly the lifetime
_is_session_valid_inclusive(session, t) ==
    t - session.last_refreshed <= SessionTTL

\* SessionCache._is_session_valid at time t
_is_session_valid(session, t) == t - session.last_refreshed < SessionTTL

\* the session stored for a site, <<>> if there is none
StoredSession(d, site) ==
    IF site \in DOMAIN d.sessions THEN <<d.sessions[site]>> ELSE <<>>

\* get that counts every lookup of a stored session, expired ones included
SessionGetResultCountsExpired(d, dsk, site, t, w) ==
    IF site \in DOMAIN d.sessions
    THEN LET session == [d.sessions[site] EXCEPT !.usage_count = @ + 1,
                                                 !.last_used = t]
             d1 == [d EXCEPT !.sessions = Put(@, site, session)]
         IN  [data |-> d1, disk |-> _save(d1, dsk, w),
              entry |-> IF _is_session_valid(d.sessions[site], t)
                        THEN <<session>> ELSE <<>>,
              wrote |-> <<w>>]
    ELSE [data |-> d, disk |-> dsk, entry |-> <<>>, wrote |-> <<>>]

\* SessionCache.get as a function of the state
SessionGetResult(d, dsk, site, t, w) ==
    IF site \in DOMAIN d.sessions /\ _is_session_valid(d.sessions[site], t)
    THEN LET session == [d.sessions[site] EXCEPT !.usage_count = @ + 1,
                                                 !.last_used = t]
             d1 == [d EXCEPT !.sessions = Put(@, site, session)]
         IN  [data |-> d1, disk |-> _save(d1, dsk, w), entry |-> <<session>>,
              wrote |-> <<w>>]
    ELSE [data |-> d, disk |-> dsk, entry |-> <<>>, wrote |-> <<>>]

\* SessionCache.get(site)
SessionCache_get(site, w) ==
    LET r == SessionGetResult(data, disk, site, now, w)
    IN  /\ cls = "SessionCache"
        /\ data' = r.data
        /\ disk' = r.disk
        /\ call' = [NoCall EXCEPT !.op = "session_get", !.site = site,
                       !.before = StoredSession(data, site),
                       !.entry = r.entry, !.flag = (r.entry # <<>>),
                       !.wrote = r.wrote]
        /\ tally' = IF r.entry # <<>> THEN Counted(tally, <<site>>, "success")
                     ELSE tally
        /\ UNCHANGED <<cls, now, probe, peer, tasks, run>>

\* set that updates the credentials of an existing session in place and
\* keeps its creation time and usage count
SessionSetResultKeepsUsage(d, dsk, site, p, t, w) ==
    LET fresh == [cookies |-> p.cookies, user_agent |-> p.user_agent,
                  viewport |-> IF p.viewport = None THEN DefaultViewport
                               ELSE p.viewport,
                  created_at |-> t, last_refreshed |-> t, last_used |-> t,
                  usage_count |-> 0, status |-> "active"]
        session == IF site \in DOMAIN d.sessions
                   THEN [fresh EXCEPT
                            !.created_at = d.sessions[site].created_at,
                            !.usage_count = d.sessions[site].usage_count]
                   ELSE fresh
        d1 == [d EXCEPT !.sessions = Put(@, site, session),
                        !.metadata.last_updated = t]
    IN  [data |-> d1, disk |-> _save(d1, dsk, w), wrote |-> <<w>>]

\* SessionCache.set as a function of the state
SessionSetResult(d, dsk, site, p, t, w) ==
    LET session == [cookies |-> p.cookies, user_agent |-> p.user_agent,
                    viewport |-> IF p.viewport = None THEN DefaultViewport
                                 ELSE p.viewport,
                    created_at |-> t, last_refreshed |-> t, last_used |-> t,
                    usage_count |-> 0, status |-> "active"]
        d1 == [d EXCEPT !.sessions = Put(@, site, session),
                        !.metadata.last_updated = t]
    IN  [data |-> d1, disk |-> _save(d1, dsk, w), wrote |-> <<w>>]

\* SessionCache.set(site, cookies, user_agent, viewport)
SessionCache_set(site, p, w) ==
    LET r == SessionSetResult(data, disk, site, p, now, w)
    IN  /\ cls = "SessionCache"
        /\ data' = r.data
        /\ disk' = r.disk
        /\ call' = [NoCall EXCEPT !.op = "session_set", !.site = site,
                       !.args = <<p>>, !.before = StoredSession(data, site),
                       !.flag = TRUE, !.wrote = r.wrote]
        /\ tally' = Put(tally, <<site>>, NoMarks)
        /\ UNCHANGED <<cls, now, probe, peer, tasks, run>>

\* refresh_session that also restarts the usage count of the session
RefreshSessionResultRestartsUsage(d, dsk, site, t, w) ==
    IF site \in DOMAIN d.sessions
    THEN LET d1 == [d EXCEPT !.sessions[site].last_refreshed = t,
                             !.sessions[site].usage_count = 0]
         IN  [data |-> d1, disk |-> _save(d1, dsk, w), hit |-> TRUE,
              wrote |-> <<w>>]
    ELSE [data |-> d, disk |-> dsk, hit |-> FALSE, wrote |-> <<>>]

\* SessionCache.refresh_session as a function of the state
RefreshSessionResult(d, dsk, site, t, w) ==
    IF site \in DOMAIN d.sessions
    THEN LET d1 == [d EXCEPT !.sessions[site].last_refreshed = t]
         IN  [data |-> d1, disk |-> _save(d1, dsk, w), hit |-> TRUE,
              wrote |-> <<w>>]
    ELSE [data |-> d, disk |-> dsk, hit |-> FALSE, wrote |-> <<>>]

\* SessionCache.refresh_session(site)
refresh_session(site, w) ==
    LET r == RefreshSessionResult(data, disk, site, now, w)
    IN  /\ cls = "SessionCache"
        /\ data' = r.data
        /\ disk' = r.disk
        /\ call' = [NoCall EXCEPT !.op = "refresh_session", !.site = site,
                       !.before = StoredSession(data, site),
                       !.flag = r.hit, !.wrote = r.wrote]
        /\ UNCHANGED <<cls, now, tally, probe, peer, tasks, run>>

----------------------------------------------------------------------------
(* BaseScraper: scrape coroutines that share one ScraperCache *)

\* BaseScraper.source_name of the scrapers
source_name == "housing"

\* the (location, bhk) pairs the coroutines scrape
WorkerKeys == { <<Gurugram, "1bhk">>, <<Gurugram, "2bhk">> }

\* a mark that works on what its coroutine saw before it was suspended
CallDocumentStale(d, site, location, bhk, seen) ==
    IF seen # <<>> /\ HasEntry(d, site, _normalize_location(location), bhk)
    THEN PutEntry(d, site, _normalize_location(location), bhk, seen[1])
    ELSE d

\* the document a synchronous cache method works on: self.data as it is at
\* the call; the method holds no await, so no other coroutine runs between
\* its read and its write
CallDocument(d, site, location, bhk, seen) == d

\* BaseScraper.scrape: coroutine w starts and is suspended at an await;
\* seen is the entry that was cached for its key at that moment
scrape(w, location, bhk) ==
    /\ cls = "ScraperCache"
    /\ tasks[w].pc = "idle"
    /\ tasks' = [tasks EXCEPT ![w] =
                    [pc |-> "awaiting", location |-> location, bhk |-> bhk,
                     seen |-> Stored(data, source_name, location, bhk)]]
    /\ UNCHANGED <<cls, data, disk, now, call, tally, probe, peer, run>>

\* a mark_success split by a suspension: the counters are those the
\* coroutine read before it was suspended, the write happens after it
\* resumes, onto the entry as the other coroutines left it
log_success_interleaved(w) ==
    LET location == tasks[w].location
        bhk == tasks[w].bhk
        location_key == _normalize_location(location)
        seen == tasks[w].seen
        stored == Stored(data, source_name, location, bhk)
        success_count == seen[1].success_count + 1
        status == update_status(success_count, seen[1].failure_count)
        d1 == PutEntry(data, source_name, location_key, bhk,
                  [stored[1] EXCEPT !.last_used = now,
                                    !.success_count = success_count,
                                    !.status = status])
        r == IF seen # <<>> /\ stored # <<>>
             THEN [data |-> d1, disk |-> _save(d1, disk, "ok"), hit |-> TRUE,
                   wrote |-> <<"ok", "ok">>]
             ELSE MarkSuccessResult(data, disk, source_name, location, bhk,
                                    now, "ok", "ok")
    IN  /\ cls = "ScraperCache"
        /\ tasks[w].pc = "awaiting"
        /\ data' = r.data
        /\ disk' = r.disk
        /\ call' = [NoCall EXCEPT !.op = "mark_success", !.site = source_name,
                       !.location = location, !.bhk = bhk,
                       !.before = Stored(data, source_name, location, bhk),
                       !.flag = r.hit, !.wrote = r.wrote]
        /\ tally' = Counted(tally, TallyKey(source_name, location, bhk), "success")
        /\ tasks' = [tasks EXCEPT ![w].pc = "logged_success"]
        /\ UNCHANGED <<cls, now, probe, peer, run>>

\* BaseScraper.log_success: coroutine w resumes and marks its key
log_success(w) ==
    LET location == tasks[w].location
        bhk == tasks[w].bhk
        d == CallDocument(data, source_name, location, bhk, tasks[w].seen)
        r == MarkSuccessResult(d, disk, source_name, location, bhk, now,
                               "ok", "ok")
    IN  /\ cls = "ScraperCache"
        /\ tasks[w].pc = "awaiting"
        /\ data' = r.data
        /\ disk' = r.disk
        /\ call' = [NoCall EXCEPT !.op = "mark_success", !.site = source_name,
                       !.location = location, !.bhk = bhk,
                       !.before = Stored(data, source_name, location, bhk),
                       !.flag = r.hit, !.wrote = r.wrote]
        /\ tally' = Counted(tally, TallyKey(source_name, location, bhk), "success")
        /\ tasks' = [tasks EXCEPT ![w].pc = "logged_success"]
        /\ UNCHANGED <<cls, now, probe, peer, run>>

\* BaseScraper.log_failure: coroutine w resumes and marks its key
log_failure(w) ==
    LET location == tasks[w].location
        bhk == tasks[w].bhk
        d == CallDocument(data, source_name, location, bhk, tasks[w].seen)
        r == MarkFailureResult(d, disk, source_name, location, bhk, now,
                               "ok", "ok")
    IN  /\ cls = "ScraperCache"
        /\ tasks[w].pc = "awaiting"
        /\ data' = r.data
        /\ disk' = r.disk
        /\ call' = [NoCall EXCEPT !.op = "mark_failure", !.site = source_name,
                       !.location = location, !.bhk = bhk,
                       !.before = Stored(data, source_name, location, bhk),
                       !.flag = r.hit, !.signal = r.signal, !.wrote = r.wrote]
        /\ tally' = Counted(tally, TallyKey(source_name, location, bhk), "failure")
        /\ tasks' = [tasks EXCEPT ![w].pc = "logged_failure"]
        /\ UNCHANGED <<cls, now, probe, peer, run>>

----------------------------------------------------------------------------
(* get_scraper_cache: a second instance on the same file *)

\* the (site, location, bhk) arguments used on the two instances
HandleKeys == { <<source_name, k[1], k[2]>> : k \in WorkerKeys }

\* get_scraper_cache() / ScraperCache(): return ScraperCache(), a new
\* instance whose __init__ loads the file; d is the document of the
\* instance that already exists
Construct(d, c, dsk, t) == _load(c, dsk, t)

\* get_scraper_cache(), or the ScraperCache() of another BaseScraper
get_scraper_cache ==
    /\ cls = "ScraperCache"
    /\ peer' = <<Construct(data, cls, disk, now)>>
    /\ call' = [NoCall EXCEPT !.op = "get_scraper_cache", !.handle = 2]
    /\ UNCHANGED <<cls, data, disk, now, tally, probe, tasks, run>>

\* ScraperCache.set on the second instance
peer_set(site, location, bhk, p, w) ==
    /\ cls = "ScraperCache"
    /\ peer # <<>>
    /\ LET r == SetResult(peer[1], disk, site, location, bhk, p, now, w)
       IN  /\ peer' = <<r.data>>
           /\ disk' = r.disk
           /\ call' = [NoCall EXCEPT !.op = "set", !.handle = 2, !.site = site,
                          !.location = location, !.bhk = bhk, !.args = <<p>>,
                          !.before = Stored(peer[1], site, location, bhk),
                          !.flag = TRUE, !.wrote = r.wrote]
    /\ UNCHANGED <<cls, data, now, tally, probe, tasks, run>>

\* ScraperCache.get on the second instance
peer_get(site, location, bhk, w) ==
    /\ cls = "ScraperCache"
    /\ peer # <<>>
    /\ LET r == GetResult(peer[1], disk, site, location, bhk, now, w)
       IN  /\ peer' = <<r.data>>
           /\ disk' = r.disk
           /\ call' = [NoCall EXCEPT !.op = "get", !.handle = 2, !.site = site,
                          !.location = location, !.bhk = bhk,
                          !.before = Stored(peer[1], site, location, bhk),
                          !.entry = r.entry, !.flag = (r.entry # <<>>),
                          !.wrote = r.wrote]
    /\ UNCHANGED <<cls, data, now, tally, probe, tasks, run>>

\* ScraperCache.mark_failure on the second instance
peer_mark_failure(site, location, bhk, w1, w2) ==
    /\ cls = "ScraperCache"
    /\ peer # <<>>
    /\ LET r == MarkFailureResult(peer[1], disk, site, location, bhk, now, w1, w2)
       IN  /\ peer' = <<r.data>>
           /\ disk' = r.disk
           /\ call' = [NoCall EXCEPT !.op = "mark_failure", !.handle = 2,
                          !.site = site, !.location = location, !.bhk = bhk,
                          !.before = Stored(peer[1], site, location, bhk),
                          !.flag = r.hit, !.signal = r.signal,
                          !.wrote = r.wrote]
    /\ UNCHANGED <<cls, data, now, tally, probe, tasks, run>>

----------------------------------------------------------------------------
(* HousingScraper (src/scraper/housing.py) and the BaseScraper it extends *)

\* the modules the name base of `from base import BaseScraper` (housing.py
\* line 5) can be bound to: the file next to housing.py when src/scraper is
\* on sys.path, the cache-integrated one when src/scraper/data is
BaseModules == {"scraper/base.py", "scraper/data/base.py"}

\* BaseScraper._validate_budget of either module: both swap a reversed
\* range; the one of scraper/data/base.py then raises a negative minimum
\* of an unreversed range to 0
_validate_budget(base, min_b, max_b) ==
    IF min_b > max_b
    THEN <<max_b, min_b>>
    ELSE IF base = "scraper/data/base.py" /\ min_b < 0
         THEN <<0, max_b>>
         ELSE <<min_b, max_b>>

\* self.source_name as HousingScraper.__init__ leaves it, and the category
\* it reports under
HousingSource == "Housing"
Category == "rent"

\* no invocation yet
NoRun ==
    [base |-> "", pc |-> "idle", location |-> <<>>, budget |-> <<0, 0>>,
     cards |-> 0, listings |-> 0, missing |-> "", hooks |-> <<>>,
     reports |-> <<>>, result |-> ""]

\* self.log_success / self.log_failure called by scrape, which then goes on
\* as r1: the hook of scraper/base.py prints; the hook of
\* scraper/data/base.py calls mark_success / mark_failure of the scraper's
\* ScraperCache
Hook(kind, r1) ==
    LET m == IF kind = "log_success"
             THEN MarkSuccessResult(data, disk, HousingSource, run.location,
                                    Category, now, "ok", "ok")
             ELSE MarkFailureResult(data, disk, HousingSource, run.location,
                                    Category, now, "ok", "ok")
        mark == IF kind = "log_success" THEN "mark_success" ELSE "mark_failure"
    IN  IF run.base = "scraper/data/base.py"
        THEN /\ data' = m.data
             /\ disk' = m.disk
             /\ call' = [NoCall EXCEPT !.op = mark, !.site = HousingSource,
                            !.location = run.location, !.bhk = Category,
                            !.before = Stored(data, HousingSource, run.location,
                                              Category),
                            !.flag = m.hit, !.wrote = m.wrote]
             /\ run' = [r1 EXCEPT !.hooks = Append(@, kind),
                                  !.reports = Append(@, mark)]
        ELSE /\ run' = [r1 EXCEPT !.hooks = Append(@, kind)]
             /\ UNCHANGED <<data, disk, call>>

\* HousingScraper.scrape(location, budget_min, budget_max) is called: the
\* budget is validated and the browser is launched (lines 142-166)
HousingScraper_scrape(location, budget_min, budget_max) ==
    /\ cls = "ScraperCache"
    /\ run.pc = "idle"
    /\ run' = [run EXCEPT !.pc = "goto", !.location = location,
                  !.budget = _validate_budget(run.base, budget_min, budget_max)]
    /\ UNCHANGED <<cls, data, disk, now, call, tally, probe, peer, tasks>>

\* await page.goto(start_url) (line 170): a timeout leaves scrape through
\* the finally clause with the exception
page_goto(loaded) ==
    /\ run.pc = "goto"
    /\ run' = IF loaded THEN [run EXCEPT !.pc = "search"]
              ELSE [run EXCEPT !.pc = "done", !.result = "raised"]
    /\ UNCHANGED <<cls, data, disk, now, call, tally, probe, peer, tasks>>

\* _search_location (lines 172-174)
_search_location(found) ==
    /\ run.pc = "search"
    /\ IF found
       THEN /\ run' = [run EXCEPT !.pc = "redirect"]
            /\ UNCHANGED <<data, disk, call>>
       ELSE Hook("log_failure", [run EXCEPT !.pc = "done", !.result = "list",
                                            !.missing = "search_input"])
    /\ UNCHANGED <<cls, now, tally, probe, peer, tasks>>

\* _wait_for_redirect (lines 177-179)
_wait_for_redirect(changed) ==
    /\ run.pc = "redirect"
    /\ IF changed
       THEN /\ run' = [run EXCEPT !.pc = "cards"]
            /\ UNCHANGED <<data, disk, call>>
       ELSE Hook("log_failure", [run EXCEPT !.pc = "done", !.result = "list",
                                            !.missing = "redirect"])
    /\ UNCHANGED <<cls, now, tally, probe, peer, tasks>>

\* the reload and the wait for any listing card (lines 182-198): the reload
\* may time out; n cards are found
wait_for_cards(loaded, n) ==
    /\ run.pc = "cards"
    /\ IF ~loaded
       THEN /\ run' = [run EXCEPT !.pc = "done", !.result = "raised"]
            /\ UNCHANGED <<data, disk, call>>
       ELSE IF n = 0
            THEN Hook("log_failure", [run EXCEPT !.pc = "done", !.result = "list",
                                                 !.missing = "listing_card"])
            ELSE /\ run' = [run EXCEPT !.pc = "extract", !.cards = n]
                 /\ UNCHANGED <<data, disk, call>>
    /\ UNCHANGED <<cls, now, tally, probe, peer, tasks>>

\* the scroll, the second query and the extraction (lines 201-221): n cards
\* are found again, k of them yield a listing
extract_cards(n, k) ==
    /\ run.pc = "extract"
    /\ k <= n
    /\ Hook("log_success", [run EXCEPT !.pc = "done", !.result = "list",
                                       !.cards = n, !.listings = k])
    /\ UNCHANGED <<cls, now, tally, probe, peer, tasks>>

----------------------------------------------------------------------------
(* The environment *)

\* the wall clock advances by an hour
Tick ==
    /\ now < MaxTime
    /\ now' = now + 1
    /\ UNCHANGED <<cls, data, disk, call, tally, probe, peer, tasks, run>>

\* the wall clock advances by half the session lifetime
TickHalfDay ==
    /\ now < MaxTime * SessionTTL
    /\ now' = now + SessionTTL \div 2
    /\ call' = [NoCall EXCEPT !.op = "tick"]
    /\ UNCHANGED <<cls, data, disk, tally, probe, peer, tasks, run>>

\* a CachedEntry recomputes its status from its counters
UpdateStatus ==
    /\ probe' = [probe EXCEPT !.status =
                    update_status(probe.success_count, probe.failure_count)]
    /\ call' = [NoCall EXCEPT !.op = "update_status"]
    /\ UNCHANGED <<cls, data, disk, now, tally, peer, tasks, run>>

----------------------------------------------------------------------------
(* Specifications *)

NoProbe == [success_count |-> 0, failure_count |-> 0, status |-> HEALTHY]

\* the scrape coroutines of one process, none started
Workers == 1..MaxWorkers
IdleTask == [pc |-> "idle", location |-> <<>>, bhk |-> "", seen |-> <<>>]
NoTasks == [w \in Workers |-> IdleTask]

\* a new cache of class c on a directory without a cache file
InitCache(c) ==
    /\ cls = c
    /\ now = 0
    /\ data = _load(c, NoFile, 0)
    /\ disk = NoFile
    /\ call = NoCall
    /\ tally = EmptyDict
    /\ probe = NoProbe
    /\ peer = <<>>
    /\ tasks = NoTasks
    /\ run = NoRun

Init == InitCache("ScraperCache")

CountOf(site, location, bhk, field) ==
    IF cls = "ScraperCache" /\ HasEntry(data, site, _normalize_location(location), bhk)
    THEN data.sites[site][_normalize_location(location)][bhk][field]
    ELSE 0

\* the public calls of one ScraperCache with arguments from Args and P,
\* every save ending in W, no counter above cs / cf
CacheCalls(Args, P, W, cs, cf) ==
    \/ \E k \in Args, p \in P, w \in W : set(k[1], k[2], k[3], p, w)
    \/ \E k \in Args, w \in W : get(k[1], k[2], k[3], w)
    \/ \E k \in Args, w1 \in W, w2 \in W :
          /\ CountOf(k[1], k[2], k[3], "success_count") < cs
          /\ mark_success(k[1], k[2], k[3], w1, w2)
    \/ \E k \in Args, w1 \in W, w2 \in W :
          /\ CountOf(k[1], k[2], k[3], "failure_count") < cf
          /\ mark_failure(k[1], k[2], k[3], w1, w2)
    \/ \E k \in Args : invalidate(k[1], k[2], k[3])
    \/ \E w \in W : clear(w)

\* one process, many keys, shallow counters, a still clock
Next == CacheCalls(Keys, {PayloadA}, WriteOk, MaxCount, MaxCount)

Spec == Init /\ [][Next]_vars

\* one key, deep counters, a still clock, restarts
NextHealth ==
    \/ CacheCalls(OneKey, Payloads, WriteOk, MaxSuccess, MaxFailure)
    \/ Restart

SpecHealth == Init /\ [][NextHealth]_vars

\* one key, shallow counters, a running clock, restarts
NextTime ==
    \/ CacheCalls(OneKey, Payloads, WriteOk, MaxCount, MaxCount)
    \/ Restart
    \/ Tick

SpecTime == Init /\ [][NextTime]_vars

\* the public calls of one SessionCache, every save ending in W
SessionCalls(W) ==
    \/ \E site \in SessionSites, p \in SessionPayloads, w \in W :
          SessionCache_set(site, p, w)
    \/ \E site \in SessionSites, w \in W :
          /\ cls = "SessionCache"
          /\ site \in DOMAIN data.sessions =>
                data.sessions[site].usage_count < MaxUsage
          /\ SessionCache_get(site, w)
    \/ \E site \in SessionSites, w \in W : refresh_session(site, w)
    \/ \E w \in W : clear(w)

\* either cache, one key, saves that may fail, a still clock, restarts
InitCaches == InitCache("ScraperCache") \/ InitCache("SessionCache")

NextCaches ==
    \/ CacheCalls(OneKey, {PayloadB}, WriteAny, MaxCount, MaxCount)
    \/ SessionCalls(WriteAny)
    \/ Restart

SpecCaches == InitCaches /\ [][NextCaches]_vars

\* a free-standing entry with any counters and any previous status
InitStatus ==
    /\ cls = "ScraperCache"
    /\ now = 0
    /\ data = _load("ScraperCache", NoFile, 0)
    /\ disk = NoFile
    /\ call = NoCall
    /\ tally = EmptyDict
    /\ probe \in [success_count : 0..MaxProbe, failure_count : 0..MaxProbe,
                  status : CacheStatus]
    /\ peer = <<>>
    /\ tasks = NoTasks
    /\ run = NoRun

NextStatus == UpdateStatus

SpecStatus == InitStatus /\ [][NextStatus]_vars

\* one cache instance shared by the scrape coroutines of one event loop:
\* the entries are cached before the coroutines start, then the coroutines
\* and direct gets interleave at the awaits
NextWorkers ==
    \/ \E k \in WorkerKeys :
          /\ \A w \in Workers : tasks[w].pc = "idle"
          /\ set(source_name, k[1], k[2], PayloadA, "ok")
    \/ \E k \in WorkerKeys : get(source_name, k[1], k[2], "ok")
    \/ \E w \in Workers, k \in WorkerKeys : scrape(w, k[1], k[2])
    \/ \E w \in Workers : log_success(w)
    \/ \E w \in Workers : log_failure(w)

SpecWorkers == Init /\ [][NextWorkers]_vars

\* the success_count an entry must exceed to be HEALTHY with failures
HealthyMinimum == 5

\* one key with a history of successes, then marked by coroutines that were
\* all suspended before any of them resumed or while others resume
NextWarm ==
    \/ /\ \A w \in Workers : tasks[w].pc = "idle"
       /\ set(source_name, Gurugram, "1bhk", PayloadA, "ok")
    \/ /\ \A w \in Workers : tasks[w].pc = "idle"
       /\ CountOf(source_name, Gurugram, "1bhk", "success_count") < HealthyMinimum
       /\ mark_success(source_name, Gurugram, "1bhk", "ok", "ok")
    \/ \E w \in Workers : scrape(w, Gurugram, "1bhk")
    \/ \E w \in Workers : log_success(w)
    \/ \E w \in Workers : log_failure(w)

SpecWarm == Init /\ [][NextWarm]_vars

\* keys that share a location: two unit types under one site, and the same
\* location name under another site
NeighbourKeys ==
    { <<"housing", Gurugram, "1bhk">>, <<"housing", Gurugram, "2bhk">>,
      <<"magicbricks", Gurugram, "1bhk">> }

\* one process, neighbouring keys, shallow counters, a still clock
NextNeighbours == CacheCalls(NeighbourKeys, {PayloadA}, WriteOk, MaxCount, MaxCount)

SpecNeighbours == Init /\ [][NextNeighbours]_vars

\* successes after which an entry with MaxRecoverFailures failures has a
\* failure rate below 0.1
RecoverySuccesses == 9 * MaxRecoverFailures + 1

\* a scrape of the key succeeded and the scraper reports it
ReportSuccess ==
    \E k \in OneKey :
        /\ CountOf(k[1], k[2], k[3], "success_count") < RecoverySuccesses
        /\ mark_success(k[1], k[2], k[3], "ok", "ok")

\* one key that is cached once, fails a few times and is then reported
\* successful again and again
NextRecovery ==
    \/ \E k \in OneKey, p \in Payloads :
          /\ Stored(data, k[1], k[2], k[3]) = <<>>
          /\ set(k[1], k[2], k[3], p, "ok")
    \/ \E k \in OneKey : get(k[1], k[2], k[3], "ok")
    \/ \E k \in OneKey :
          /\ CountOf(k[1], k[2], k[3], "failure_count") < MaxRecoverFailures
          /\ mark_failure(k[1], k[2], k[3], "ok", "ok")
    \/ ReportSuccess

\* the scraper keeps scraping the key, and its scrapes keep succeeding
SpecRecovery == Init /\ [][NextRecovery]_vars /\ WF_vars(ReportSuccess)

\* BaseScraper.has_cached_location(location): the scraper asks its cache;
\* has_location subscripts self.data["sites"] outside any try, so on a
\* document without "sites" the KeyError reaches the caller
has_cached_location(location) ==
    /\ cls = "ScraperCache"
    /\ call' = IF "sites" \in DOMAIN data
               THEN [NoCall EXCEPT !.op = "has_location", !.site = source_name,
                        !.location = location,
                        !.flag = has_location(data, source_name, location)]
               ELSE [NoCall EXCEPT !.op = "has_location", !.site = source_name,
                        !.location = location, !.raised = "KeyError"]
    /\ UNCHANGED <<cls, data, disk, now, tally, probe, peer, tasks, run>>

\* data/scraper_metadata.json as the earlier variant of ScraperCache wrote
\* it (set_hash, lines 72-85): site names at the top level, a hash string
\* per category, no "metadata" and no "sites"
LegacyFile ==
    [state |-> "json",
     text |-> Put(EmptyDict, "housing",
                  Put(EmptyDict, _normalize_location(Gurugram),
                      Put(EmptyDict, "default", PayloadA.hash)))]

\* the file a ScraperCache of the live class leaves after one set
CurrentFile ==
    JsonFile(SetResult(_get_empty_structure("ScraperCache", 0), NoFile,
                       "housing", Gurugram, "1bhk", PayloadA, 0, "ok").data)

\* the files a new ScraperCache can find under its file name
StartupFiles == {NoFile, CorruptFile, LegacyFile, CurrentFile}

\* a ScraperCache constructed on any of these files
InitStartup ==
    /\ cls = "ScraperCache"
    /\ now = 0
    /\ disk \in StartupFiles
    /\ data = _load("ScraperCache", disk, 0)
    /\ call = NoCall
    /\ tally = EmptyDict
    /\ probe = NoProbe
    /\ peer = <<>>
    /\ tasks = NoTasks
    /\ run = NoRun

\* the calls a scraper makes on the cache it constructed
NextStartup ==
    \/ CacheCalls(OneKey, Payloads, WriteOk, MaxCount, MaxCount)
    \/ \E k \in OneKey : has_cached_location(k[2])
    \/ Restart
    \/ Tick

SpecStartup == InitStartup /\ [][NextStartup]_vars

\* two ScraperCache instances of one process on the same file: scraper A
\* works through the first instance, scraper B through the second
NextHandles ==
    \/ \E k \in HandleKeys : set(k[1], k[2], k[3], PayloadA, "ok")
    \/ \E k \in HandleKeys : get(k[1], k[2], k[3], "ok")
    \/ get_scraper_cache
    \/ peer_set(source_name, Gurugram, "2bhk", PayloadB, "ok")
    \/ \E k \in HandleKeys : peer_get(k[1], k[2], k[3], "ok")
    \/ /\ peer # <<>>
       /\ HasEntry(peer[1], source_name, _normalize_location(Gurugram), "2bhk") =>
             peer[1].sites[source_name][_normalize_location(Gurugram)]["2bhk"].failure_count
                 < MaxCount
       /\ peer_mark_failure(source_name, Gurugram, "2bhk", "ok", "ok")

SpecHandles == Init /\ [][NextHandles]_vars

\* one key, shallow counters, a clock that runs for days
NextAge ==
    \/ CacheCalls(OneKey, Payloads, WriteOk, MaxCount, MaxCount)
    \/ TickHalfDay

SpecAge == Init /\ [][NextAge]_vars

InitSession == InitCache("SessionCache")

\* the sites whose sessions one SessionCache holds side by side
TwoSites == {"housing", "magicbricks"}

\* one SessionCache with the sessions of two sites under a clock that runs
\* past the session lifetime
NextSites ==
    \/ \E site \in TwoSites : SessionCache_set(site, SessionA, "ok")
    \/ \E site \in TwoSites :
          /\ SessionGetResult(data, disk, site, now, "ok").entry # <<>> =>
                data.sessions[site].usage_count < MaxUsage
          /\ SessionCache_get(site, "ok")
    \/ \E site \in TwoSites : refresh_session(site, "ok")
    \/ TickHalfDay

SpecSites == InitSession /\ [][NextSites]_vars

\* one SessionCache under a clock that runs past the session lifetime
NextSession ==
    \/ SessionCalls(WriteOk)
    \/ TickHalfDay

SpecSession == InitSession /\ [][NextSession]_vars

\* one HousingScraper, its base class bound either way, one invocation of
\* scrape on any budget and any page
InitHousing ==
    /\ cls = "ScraperCache"
    /\ now = 0
    /\ data = _load("ScraperCache", NoFile, 0)
    /\ disk = NoFile
    /\ call = NoCall
    /\ tally = EmptyDict
    /\ probe = NoProbe
    /\ peer = <<>>
    /\ tasks = NoTasks
    /\ \E base \in BaseModules : run = [NoRun EXCEPT !.base = base]

NextHousing ==
    \/ \E budget_min \in -MaxBudget..MaxBudget, budget_max \in -MaxBudget..MaxBudget :
          HousingScraper_scrape(Gurugram, budget_min, budget_max)
    \/ \E loaded \in BOOLEAN : page_goto(loaded)
    \/ \E found \in BOOLEAN : _search_location(found)
    \/ \E changed \in BOOLEAN : _wait_for_redirect(changed)
    \/ \E loaded \in BOOLEAN, n \in 0..MaxCards : wait_for_cards(loaded, n)
    \/ \E n \in 0..MaxCards, k \in 0..MaxCards : extract_cards(n, k)

SpecHousing == InitHousing /\ [][NextHousing]_vars

----------------------------------------------------------------------------
(* Properties *)

\* the status rule as the specification states it, on exact integers
RuleHealthy(s, f) == s + f = 0 \/ f = 0 \/ (s > 5 /\ 10 * f < s + f)
RuleDegraded(s, f) == ~RuleHealthy(s, f) /\ 10 * f < 3 * (s + f)
DerivedStatus(s, f) ==
    IF RuleHealthy(s, f) THEN HEALTHY
    ELSE IF RuleDegraded(s, f) THEN DEGRADED ELSE BROKEN

\* every entry stored in a scraper document
Entries(d) ==
    UNION { UNION { { d.sites[s][l][b] : b \in DOMAIN d.sites[s][l] } :
                    l \in DOMAIN d.sites[s] } : s \in DOMAIN d.sites }

\* C1: in every reachable state of a scraper cache, the status stored in
\* each entry is the status the rule derives from the counters stored in
\* that entry
C1_StatusNeverStale ==
    cls = "ScraperCache" =>
        \A e \in Entries(data) :
            e.status = DerivedStatus(e.success_count, e.failure_count)

\* a mark_failure has just moved an entry from HEALTHY to DEGRADED
C1_Witness ==
    /\ call.op = "mark_failure"
    /\ call.before # <<>>
    /\ call.before[1].status = HEALTHY
    /\ \E e \in Entries(data) : e.status = DEGRADED /\ e.failure_count = 1

\* C2: update_status leaves HEALTHY iff s+f = 0 or f = 0 or (s > 5 and
\* f/(s+f) < 0.10), DEGRADED iff not HEALTHY and f/(s+f) < 0.30, BROKEN
\* otherwise; a ratio of exactly 0.10 gives DEGRADED and one of exactly 0.30
\* gives BROKEN
C2_StatusTable ==
    call.op = "update_status" =>
        LET s == probe.success_count
            f == probe.failure_count
            st == probe.status
        IN  /\ st \in CacheStatus
            /\ (st = HEALTHY) <=> RuleHealthy(s, f)
            /\ (st = DEGRADED) <=> RuleDegraded(s, f)
            /\ (st = BROKEN) <=> (~RuleHealthy(s, f) /\ ~RuleDegraded(s, f))
            /\ (s + f > 0 /\ 10 * f = s + f) => st = DEGRADED
            /\ (s + f > 0 /\ 10 * f = 3 * (s + f)) => st = BROKEN

\* update_status has run on 9 successes and 1 failure, a ratio of exactly 0.10
C2_Witness ==
    /\ call.op = "update_status"
    /\ probe.success_count = 9
    /\ probe.failure_count = 1
    /\ probe.status = DEGRADED

\* C3: right after set, a get with the same arguments returns an entry with
\* both counters 0, status HEALTHY and the hash and full_url given to set,
\* whatever was stored under the key before
C3_SetThenGet ==
    call.op = "set" =>
        LET r == GetResult(data, disk, call.site, call.location, call.bhk,
                           now, "ok")
        IN  /\ r.entry # <<>>
            /\ r.entry[1].success_count = 0
            /\ r.entry[1].failure_count = 0
            /\ r.entry[1].status = HEALTHY
            /\ r.entry[1].hash = call.args[1].hash
            /\ r.entry[1].full_url = call.args[1].full_url

\* set has just replaced a BROKEN entry with counted successes and another
\* hash
C3_Witness ==
    /\ call.op = "set"
    /\ call.before # <<>>
    /\ call.before[1].status = BROKEN
    /\ call.before[1].success_count > 0
    /\ call.before[1].hash # call.args[1].hash

\* C4: after a set on a key and then n mark_success and m mark_failure calls
\* on it, in any order and with gets in between, the entry holds
\* success_count = n, failure_count = m and the status derived from (n, m);
\* failures alone give BROKEN, 10 successes give HEALTHY, 10 successes and 5
\* failures give BROKEN
C4_CountsMatchCalls ==
    \A k \in DOMAIN tally :
        LET n == tally[k].success
            m == tally[k].failure
        IN  /\ HasEntry(data, k[1], k[2], k[3])
            /\ data.sites[k[1]][k[2]][k[3]].success_count = n
            /\ data.sites[k[1]][k[2]][k[3]].failure_count = m
            /\ data.sites[k[1]][k[2]][k[3]].status = DerivedStatus(n, m)
            /\ (n = 0 /\ m >= 1) => data.sites[k[1]][k[2]][k[3]].status = BROKEN
            /\ (n = 10 /\ m = 0) => data.sites[k[1]][k[2]][k[3]].status = HEALTHY
            /\ (n = 10 /\ m = 5) => data.sites[k[1]][k[2]][k[3]].status = BROKEN

\* 10 mark_success and 5 mark_failure calls have been made on a key since
\* its set
C4_Witness ==
    \E k \in DOMAIN tally :
        /\ tally[k] = [success |-> 10, failure |-> 5]
        /\ HasEntry(data, k[1], k[2], k[3])
        /\ data.sites[k[1]][k[2]][k[3]].status = BROKEN

\* C5: a mark_success or mark_failure on a key without an entry raises
\* nothing and changes neither the document nor the file, so has_location
\* and get_all_bhk_types answer as before
C5_MarkAbsentNoOp ==
    [][ (call'.op \in {"mark_success", "mark_failure"} /\ call'.before = <<>>)
          => /\ call'.raised = ""
             /\ ~call'.flag
             /\ data' = data
             /\ disk' = disk
             /\ \A k \in Keys :
                   /\ has_location(data', k[1], k[2]) = has_location(data, k[1], k[2])
                   /\ get_all_bhk_types(data', k[1], k[2])
                         = get_all_bhk_types(data, k[1], k[2])
                   /\ Stored(data', k[1], k[2], k[3]) = Stored(data, k[1], k[2], k[3])
      ]_vars

\* mark_failure has been called for a unit type that has no entry under a
\* location that has one for another unit type
C5_Witness ==
    /\ call.op = "mark_failure"
    /\ call.before = <<>>
    /\ has_location(data, call.site, call.location)
    /\ get_all_bhk_types(data, call.site, call.location) # {}

\* C6: invalidate on a key that holds an entry returns normally, removes the
\* entry from get and get_all_bhk_types, and the file shows the removal
C6_InvalidateRemoves ==
    (call.op = "invalidate" /\ call.before # <<>>) =>
        /\ call.raised = ""
        /\ Stored(data, call.site, call.location, call.bhk) = <<>>
        /\ call.bhk \notin get_all_bhk_types(data, call.site, call.location)
        /\ disk.state = "json"
        /\ JsonLoad(disk.text) = data

\* C7: invalidate on a key without an entry raises nothing and leaves the
\* document and the file as they were
C7_InvalidateAbsentSilent ==
    [][ (call'.op = "invalidate" /\ call'.before = <<>>)
          => /\ call'.raised = ""
             /\ data' = data
             /\ disk' = disk
      ]_vars

\* the two spellings of one location among the arguments
Spellings == {Sector_56, sector_56}

\* every location string of at most MaxLen characters over upper case, lower
\* case, space and hyphen
LocationStrings ==
    UNION { [1..n -> {"S", "s", "G", " ", "-"}] : n \in 0..MaxLen }

\* normalizing a normalized location changes nothing, and a normalized
\* location holds no upper-case letter and no space
NormalizeIdempotent ==
    \A l \in LocationStrings \cup { k[2] : k \in Keys } :
        /\ _normalize_location(_normalize_location(l)) = _normalize_location(l)
        /\ \A i \in 1..Len(l) : _normalize_location(l)[i] \notin {"S", "G", " "}

\* C8: normalizing a location twice gives what normalizing it once gives,
\* and after a set under one spelling of a location, get, mark_success,
\* mark_failure, has_location and get_all_bhk_types under either spelling
\* reach the entry that was set
C8_NormalizedAddressing ==
    /\ NormalizeIdempotent
    /\ (call.op = "set" /\ call.location \in Spellings) =>
          \A L \in Spellings :
              LET r == GetResult(data, disk, call.site, L, call.bhk, now, "ok")
              IN  /\ r.entry # <<>>
                  /\ r.entry[1].hash = call.args[1].hash
                  /\ r.entry = GetResult(data, disk, call.site, call.location,
                                         call.bhk, now, "ok").entry
                  /\ MarkSuccessResult(data, disk, call.site, L, call.bhk,
                                       now, "ok", "ok").hit
                  /\ MarkFailureResult(data, disk, call.site, L, call.bhk,
                                       now, "ok", "ok").hit
                  /\ has_location(data, call.site, L)
                  /\ call.bhk \in get_all_bhk_types(data, call.site, L)

\* set("Sec 56") has just created the entry that is stored under "sec-56"
C8_Witness ==
    /\ call.op = "set"
    /\ call.location = Sector_56
    /\ call.before = <<>>
    /\ HasEntry(data, call.site, sector_56, call.bhk)

\* a call that changes the document of its cache
Mutating(c) ==
    \/ c.op \in {"set", "clear", "session_set"}
    \/ /\ c.op \in {"get", "mark_success", "mark_failure", "session_get",
                    "refresh_session"}
       /\ c.flag

\* C9: every call that changes the document saves it before returning, and
\* when its last save succeeds the file holds the document that is in memory
C9_WriteThrough ==
    Mutating(call) =>
        /\ call.wrote # <<>>
        /\ call.wrote[Len(call.wrote)] = "ok" =>
              /\ disk.state = "json"
              /\ JsonLoad(disk.text) = data

\* a mark_failure whose first save failed and whose second save succeeded
C9_Witness ==
    /\ call.op = "mark_failure"
    /\ call.flag
    /\ call.wrote = <<"truncated", "ok">>
    /\ disk.state = "json"

\* C10: when every save has succeeded, a new instance on the same file loads
\* a document with the same keys and, under each key, an equal entry
C10_RoundTrip ==
    cls = "ScraperCache" => _load(cls, disk, now).sites = data.sites

\* a new instance has loaded an entry that was read after it was set, has a
\* counted failure and holds None in an optional field
C10_Witness ==
    /\ call.op = "init"
    /\ \E e \in Entries(data) :
          /\ e.failure_count = 1
          /\ e.bhk_code = None
          /\ e.last_used > e.discovered_at

\* the coroutines that have completed a mark of the given kind on a key
Logged(location, bhk, pc) ==
    { w \in Workers : /\ tasks[w].pc = pc
                      /\ tasks[w].location = location
                      /\ tasks[w].bhk = bhk }

OtherDocument == IF call.handle = 1 THEN peer[1] ELSE data

\* C12: get_scraper_cache() returns one and the same instance on every
\* call, so an entry written by set through one handle is returned by get
\* through the other handle
C12_SingletonHandle ==
    (call.op = "set" /\ peer # <<>>) =>
        LET r == GetResult(OtherDocument, disk, call.site, call.location,
                           call.bhk, now, "ok")
        IN  /\ r.entry # <<>>
            /\ r.entry[1].hash = call.args[1].hash

\* the entry of a key in the file
OnDisk(dsk, site, location, bhk) ==
    /\ dsk.state = "json"
    /\ HasEntry(JsonLoad(dsk.text), site, _normalize_location(location), bhk)

\* C13: when two instances in one process write the shared file, a set or a
\* mark of one key leaves every other key's entry in the file
C13_NoPersistedEntryLost ==
    [][ (call'.op \in {"set", "mark_success", "mark_failure"})
          => \A k \in HandleKeys :
                (<<k[2], k[3]>> # <<call'.location, call'.bhk>>
                 /\ OnDisk(disk, k[1], k[2], k[3]))
                    => OnDisk(disk', k[1], k[2], k[3])
      ]_vars

\* C14: session get returns the session only while now - last_refreshed is
\* below 24 hours; at 24 hours or more it returns None and leaves the stored
\* record as it was, and after a refresh_session a get returns the session
\* with the same cookies and user agent again
C14_SessionExpiry ==
    /\ (call.op = "session_get" /\ call.before # <<>>) =>
          LET s == call.before[1]
          IN  /\ (call.entry # <<>>) <=> (now - s.last_refreshed < 24)
              /\ call.entry # <<>> =>
                    /\ call.entry[1].cookies = s.cookies
                    /\ call.entry[1].user_agent = s.user_agent
              /\ call.entry = <<>> =>
                    /\ call.raised = ""
                    /\ StoredSession(data, call.site) = <<s>>
    /\ (call.op = "refresh_session" /\ call.before # <<>>) =>
          LET r == SessionGetResult(data, disk, call.site, now, "ok")
          IN  /\ r.entry # <<>>
              /\ r.entry[1].cookies = call.before[1].cookies
              /\ r.entry[1].user_agent = call.before[1].user_agent

\* refresh_session has just been called on a session that was refreshed
\* exactly 24 hours ago and had been read once while it was valid
C14_Witness ==
    /\ call.op = "refresh_session"
    /\ call.before # <<>>
    /\ now - call.before[1].last_refreshed = 24
    /\ call.before[1].usage_count = 1

\* some save of the last call did not complete
WriteFailed(c) == \E i \in 1..Len(c.wrote) : c.wrote[i] # "ok"

\* C15: a call whose save fails raises nothing and its change of the
\* document is in memory: the entry set, the stamped last_used, the counter
\* raised by one, the emptied document, the session stored, counted or
\* refreshed; a read that follows is served from memory whatever the file
\* holds
C15_WriteFailureNonFatal ==
    WriteFailed(call) =>
        /\ call.raised = ""
        /\ call.op = "set" =>
              /\ Stored(data, call.site, call.location, call.bhk) # <<>>
              /\ \A w \in WriteAny :
                    LET r == GetResult(data, disk, call.site, call.location,
                                       call.bhk, now, w)
                    IN  /\ r.entry # <<>>
                        /\ r.entry[1].hash = call.args[1].hash
                        /\ r.entry[1].full_url = call.args[1].full_url
                        /\ r.entry[1].success_count = 0
                        /\ r.entry[1].failure_count = 0
        /\ call.op = "get" =>
              /\ call.entry = Stored(data, call.site, call.location, call.bhk)
              /\ call.entry[1].last_used = now
        /\ call.op = "mark_success" =>
              Stored(data, call.site, call.location, call.bhk)[1].success_count
                  = call.before[1].success_count + 1
        /\ call.op = "mark_failure" =>
              Stored(data, call.site, call.location, call.bhk)[1].failure_count
                  = call.before[1].failure_count + 1
        /\ (call.op = "clear" /\ cls = "ScraperCache") =>
              /\ data.sites = EmptyDict
              /\ \A k \in OneKey : ~has_location(data, k[1], k[2])
        /\ (call.op = "clear" /\ cls = "SessionCache") =>
              data.sessions = EmptyDict
        /\ call.op = "session_set" =>
              /\ StoredSession(data, call.site) # <<>>
              /\ data.sessions[call.site].cookies = call.args[1].cookies
              /\ data.sessions[call.site].usage_count = 0
              /\ \A w \in WriteAny :
                    SessionGetResult(data, disk, call.site, now, w).entry # <<>>
        /\ call.op = "session_get" =>
              /\ call.entry = StoredSession(data, call.site)
              /\ call.entry[1].usage_count = call.before[1].usage_count + 1
        /\ call.op = "refresh_session" =>
              data.sessions[call.site].last_refreshed = now

\* a set whose save could not open the file has just stored an entry in
\* memory while no cache file exists
C15_Witness ==
    /\ call.op = "set"
    /\ call.wrote = <<"open_failed">>
    /\ disk.state = "absent"
    /\ Stored(data, call.site, call.location, call.bhk) # <<>>

\* the document of a cold start: a new instance where no file exists
ColdStart == _load(cls, NoFile, now)

C17_GetFrame ==
    [][ (call'.op = "get" /\ now' = now) =>
          LET site == call'.site
              location_key == _normalize_location(call'.location)
              bhk == call'.bhk
          IN  /\ call'.raised = ""
              /\ HasEntry(data, site, location_key, bhk) =>
                    LET old == data.sites[site][location_key][bhk]
                        new == data'.sites[site][location_key][bhk]
                    IN  /\ call'.entry = <<new>>
                        /\ new.last_used = now
                        /\ new.hash = old.hash
                        /\ new.full_url = old.full_url
                        /\ new.bhk_code = old.bhk_code
                        /\ new.location_hash = old.location_hash
                        /\ new.discovered_at = old.discovered_at
                        /\ new.success_count = old.success_count
                        /\ new.failure_count = old.failure_count
                        /\ new.status = old.status
                        /\ data'.metadata = data.metadata
                        /\ data' = PutEntry(data, site, location_key, bhk, new)
                        /\ disk'.state = "json"
                        /\ JsonLoad(disk'.text) = data'
              /\ ~HasEntry(data, site, location_key, bhk) =>
                    /\ call'.entry = <<>>
                    /\ data' = data
                    /\ disk' = disk
      ]_vars

\* get has just returned an entry with a counted failure, stamped later than
\* the entry was discovered and later than the document was last updated
C17_Witness ==
    /\ call.op = "get"
    /\ call.entry # <<>>
    /\ call.entry[1].failure_count = 1
    /\ call.entry[1].last_used > call.entry[1].discovered_at
    /\ call.entry[1].last_used > data.metadata.last_updated

\* the sites, locations and unit types the queries are asked about: those
\* of the calls, and a site, a location and a unit type never stored
ProbeSites == {"housing", "magicbricks"}
ProbeLocations == Spellings \cup {Gurugram}
BhkTypes == {"1bhk", "2bhk", "3bhk"}

\* C18: has_location(site, location) is true exactly when some unit type
\* has an entry under the site and the normalized location, whatever the
\* entries' status, and it is false for every location after clear
C18_HasLocationExact ==
    /\ \A s \in ProbeSites, l \in ProbeLocations :
          has_location(data, s, l)
              <=> \E b \in BhkTypes : HasEntry(data, s, _normalize_location(l), b)
    /\ call.op = "clear" =>
          \A s \in ProbeSites, l \in ProbeLocations : ~has_location(data, s, l)

\* has_location is true for a location whose only entry is BROKEN, and false
\* for another location of the same site
C18_Witness ==
    /\ has_location(data, "housing", Sector_56)
    /\ get_all_bhk_types(data, "housing", Sector_56) = {"1bhk"}
    /\ data.sites["housing"][sector_56]["1bhk"].status = BROKEN
    /\ ~has_location(data, "housing", Gurugram)

\* C19: get_all_bhk_types(site, location) is the set of unit types for
\* which get returns an entry under the site and the normalized location,
\* and the empty list for a site or location that is not stored
C19_BhkTypesExact ==
    \A s \in ProbeSites, l \in ProbeLocations :
        /\ get_all_bhk_types(data, s, l)
              = { b \in BhkTypes :
                    GetResult(data, disk, s, l, b, now, "ok").entry # <<>> }
        /\ (s \notin DOMAIN data.sites
            \/ _normalize_location(l) \notin DOMAIN data.sites[s])
              => get_all_bhk_types(data, s, l) = {}

\* both unit types are listed for "Sec 56" after they were stored under
\* "sec-56", and none for a location that was never stored
C19_Witness ==
    /\ call.op = "set"
    /\ call.location = sector_56
    /\ get_all_bhk_types(data, "housing", Sector_56) = {"1bhk", "2bhk"}
    /\ get_all_bhk_types(data, "housing", Gurugram) = {}

\* C20: mark_failure prints its BROKEN warning exactly when the key holds
\* an entry and the status that the call stores is BROKEN; it prints
\* nothing when the stored status is HEALTHY or DEGRADED or the key holds no
\* entry
C20_BrokenSignal ==
    call.op = "mark_failure" =>
        LET after == Stored(data, call.site, call.location, call.bhk)
        IN  /\ call.signal <=> (after # <<>> /\ after[1].status = BROKEN)
            /\ call.before = <<>> => ~call.signal
            /\ call.before # <<>> =>
                  (call.signal <=>
                      DerivedStatus(call.before[1].success_count,
                                    call.before[1].failure_count + 1) = BROKEN)

\* the fifth mark_failure after ten successes has moved the entry from
\* DEGRADED to BROKEN and printed the warning
C20_Witness ==
    /\ call.op = "mark_failure"
    /\ call.signal
    /\ call.before # <<>>
    /\ call.before[1].status = DEGRADED
    /\ call.before[1].success_count = 10
    /\ call.before[1].failure_count = 4

\* C21: scraper-cache entries never expire by time alone: a step in which
\* only the clock advances never turns an entry that get would return,
\* whatever its status, into one that get reports absent, and every get of
\* a stored entry returns it at whatever time it is made
C21_NoTimeExpiry ==
    [][\A k \in OneKey :
          /\ now' # now /\ GetResult(data, disk, k[1], k[2], k[3], now, "ok").entry # <<>>
                => GetResult(data', disk', k[1], k[2], k[3], now', "ok").entry # <<>>
          /\ call'.op = "get" /\ Stored(data, k[1], k[2], k[3]) # <<>>
                => call'.entry # <<>>]_vars

\* a broken entry a day old has just been returned by get
C21_Witness ==
    /\ call.op = "get"
    /\ call.entry # <<>>
    /\ call.entry[1].status = BROKEN
    /\ now - call.entry[1].discovered_at >= SessionTTL

\* C22: a session get that finds a session no older than the lifetime
\* returns it, adds exactly one to its usage_count, stamps last_used and
\* writes the document to the file; a get of an expired session or of a site
\* without one returns nothing and leaves the document and the file as they
\* were.  So the usage_count of a session always equals the number of gets
\* that returned it since the session was last set.
C22_UsageCountsValidHits ==
    [][/\ call'.op = "session_get" =>
            LET site == call'.site
                s == StoredSession(data, site)
            IN  IF s # <<>> /\ now - s[1].last_refreshed < SessionTTL
                THEN /\ data' = [data EXCEPT
                                    !.sessions[site].usage_count = s[1].usage_count + 1,
                                    !.sessions[site].last_used = now]
                     /\ call'.entry = <<data'.sessions[site]>>
                     /\ disk' = JsonFile(data')
                ELSE /\ call'.entry = <<>>
                     /\ data' = data
                     /\ disk' = disk
       /\ \A k \in DOMAIN tally' :
             /\ k[1] \in DOMAIN data'.sessions
             /\ data'.sessions[k[1]].usage_count = tally'[k].success]_vars

\* both cases next to each other: one site's session has just been found
\* expired after it had been used, while the other site's session is stored
C22_Witness ==
    /\ call.op = "session_get"
    /\ call.before # <<>>
    /\ call.entry = <<>>
    /\ call.before[1].usage_count = 1
    /\ \E other \in DOMAIN data.sessions : other # call.site

\* C23: refresh_session of a site that has a session sets the last_refreshed
\* of that session to the current time and changes nothing else: not the
\* cookies, user_agent, viewport, created_at or usage_count of the session,
\* and not the session of any other site.  For a site without a session it
\* changes nothing, creates no session and raises nothing.
C23_RefreshFrame ==
    [][call'.op = "refresh_session" =>
          LET site == call'.site
          IN  IF site \in DOMAIN data.sessions
              THEN /\ DOMAIN data'.sessions = DOMAIN data.sessions
                   /\ data'.sessions[site].last_refreshed = now
                   /\ \A fld \in {"cookies", "user_agent", "viewport",
                                  "created_at", "usage_count"} :
                         data'.sessions[site][fld] = data.sessions[site][fld]
                   /\ \A other \in DOMAIN data.sessions \ {site} :
                         data'.sessions[other] = data.sessions[other]
                   /\ data' = [data EXCEPT !.sessions[site].last_refreshed = now]
              ELSE /\ data' = data
                   /\ disk' = disk
                   /\ call'.raised = ""]_vars

\* a used session created earlier has just been refreshed while another
\* site's session is stored
C23_Witness ==
    /\ call.op = "refresh_session"
    /\ call.before # <<>>
    /\ call.before[1].usage_count = 1
    /\ call.before[1].last_refreshed < now
    /\ StoredSession(data, call.site) =
          <<[call.before[1] EXCEPT !.last_refreshed = now]>>
    /\ \E other \in DOMAIN data.sessions : other # call.site

\* C24: session set overwrites whatever was stored for the site: afterwards
\* the stored session has the given cookies and user_agent, created_at and
\* last_refreshed equal to the time of the call and usage_count 0, and a get
\* made right after returns it
C24_SessionSetOverwrites ==
    call.op = "session_set" =>
        LET p == call.args[1]
            s == StoredSession(data, call.site)
            r == SessionGetResult(data, disk, call.site, now, "ok")
        IN  /\ s # <<>>
            /\ s[1].cookies = p.cookies
            /\ s[1].user_agent = p.user_agent
            /\ s[1].created_at = now
            /\ s[1].last_refreshed = now
            /\ s[1].usage_count = 0
            /\ r.entry # <<>>
            /\ r.entry[1].cookies = p.cookies
            /\ r.entry[1].user_agent = p.user_agent

\* a session that had been used and had expired has just been replaced by
\* one with other cookies
C24_Witness ==
    /\ call.op = "session_set"
    /\ call.before # <<>>
    /\ call.before[1].usage_count = 1
    /\ now - call.before[1].last_refreshed >= SessionTTL
    /\ call.before[1].cookies # call.args[1].cookies

DiscoveryFields == {"hash", "full_url", "bhk_code", "location_hash", "discovered_at"}

\* C27: hash, full_url, bhk_code, location_hash and discovered_at are
\* written by set only: every get, mark_success and mark_failure leaves
\* these five fields of every stored entry as they were
C27_DiscoveryFieldsFrame ==
    [][call'.op \in {"get", "mark_success", "mark_failure"} =>
          \A k \in OneKey :
              Stored(data, k[1], k[2], k[3]) # <<>> =>
                  /\ Stored(data', k[1], k[2], k[3]) # <<>>
                  /\ \A fld \in DiscoveryFields :
                        Stored(data', k[1], k[2], k[3])[1][fld] =
                            Stored(data, k[1], k[2], k[3])[1][fld]]_vars

\* an entry discovered earlier has just been marked and still carries its
\* discovery time and hash
C27_Witness ==
    /\ call.op \in {"mark_success", "mark_failure"}
    /\ call.flag
    /\ call.before # <<>>
    /\ call.before[1].discovered_at < now
    /\ LET s == Stored(data, call.site, call.location, call.bhk)
       IN  /\ s # <<>>
           /\ s[1].last_used = now
           /\ s[1].discovered_at = call.before[1].discovered_at
           /\ s[1].hash = call.before[1].hash

C30_DocumentShape ==
    /\ cls = "ScraperCache" => {"metadata", "sites"} \subseteq DOMAIN data
    /\ call.raised # "KeyError"

\* the exits of scrape that return an empty list after a failure hook
MissingSteps == {"search_input", "redirect", "listing_card"}

\* every invocation of scrape that returns a list has called exactly one of
\* the hooks log_success and log_failure: log_failure on the three exits for
\* a missing step, log_success on the exit that returns the listings
HookCalledExactlyOnce ==
    run.result = "list" =>
        /\ Len(run.hooks) = 1
        /\ run.hooks[1] = "log_failure" <=> run.missing \in MissingSteps
        /\ run.hooks[1] = "log_success" <=> run.missing = ""
        /\ run.missing \in MissingSteps => run.listings = 0

\* C31: every invocation of HousingScraper.scrape that returns a list has
\* reported exactly one outcome to the cache before it returned: a failure
\* on the exits that return the empty list because the search box, the
\* redirect or the listing cards were missing, a success on the exit that
\* returns the extracted listings; a non-empty list is always preceded by a
\* success report
C31_OneOutcomeReported ==
    run.result = "list" =>
        /\ Len(run.reports) = 1
        /\ run.reports[1] = "mark_failure" <=> run.missing \in MissingSteps
        /\ run.reports[1] = "mark_success" <=> run.missing = ""
        /\ run.listings > 0 => run.reports = <<"mark_success">>

\* C32: the pair returned by BaseScraper._validate_budget is in order: for
\* all integers min_b and max_b, negative and reversed ones included, the
\* first component is at most the second
C32_BudgetOrdered ==
    run.pc # "idle" => run.budget[1] <= run.budget[2]

====
